---- MODULE Spec2Model ----
(***************************************************************************)
(* A model of testqrcode.c: the program that renders a QR module matrix    *)
(* either as SVG rectangles or as a hand-built 1-bit PNG (signature,       *)
(* IHDR, one zlib-compressed IDAT, IEND) assembled in a fixed buffer.      *)
(*                                                                         *)
(* The module matrix (qrcode.h) and the compressor (zlib) are external:    *)
(* a call of qrcode_getModule answers with a value the model chooses at    *)
(* the call, and a call of deflate produces some number of output bytes    *)
(* within the space it was given, or fails.  QR_SCALE, QR_PADDING and      *)
(* sizeof(pngbuf) are compile-time numbers of the program; the model       *)
(* carries them as the variables scale, padding and cap so that small      *)
(* builds can be enumerated, and uses the shipped values (5, 4) for the    *)
(* row synthesis over the real matrix sizes.                               *)
(***************************************************************************)
EXTENDS Integers, Sequences, FiniteSets, TLC

\* ------------------------------------------------------------------ bounds

\* Largest matrix side of the enumerated builds.
MaxSize == 3

\* Largest pixels-per-module of the enumerated builds.
MaxScale == 2

\* Largest quiet zone (in modules) of the enumerated builds.
MaxPadding == 1

\* Most bytes the compressor produces for one image.
MaxZ == 2

\* ------------------------------------------------------- program constants

QR_SCALE == 5

QR_PADDING == 4

\* Matrix sides a QR code can have (versions 1..40).
MinQRSize == 21

MaxQRSize == 177

\* zlib return codes.
Z_OK == 0

Z_STREAM_END == 1

Z_STREAM_ERROR == -2

Z_MEM_ERROR == -4

Z_BUF_ERROR == -5

\* A byte of memory nothing has been stored to yet.
Indeterminate == -1

\* ------------------------------------------------------------- arithmetic

RECURSIVE Xor(_, _)
\* a ^ b on naturals.
Xor(a, b) ==
  IF a = 0 THEN b
  ELSE IF b = 0 THEN a
  ELSE (((a % 2) + (b % 2)) % 2) + 2 * Xor(a \div 2, b \div 2)

Pow2(k) == 2 ^ k

Min(a, b) == IF a < b THEN a ELSE b

\* An unsigned 32-bit value is the pair <<high 16 bits, low 16 bits>>:
\* TLC's integers are narrower than 2^32.
U32(n) == <<(n \div 65536) % 65536, n % 65536>>

XorU32(v, w) == <<Xor(v[1], w[1]), Xor(v[2], w[2])>>

\* v >> k for 0 <= k <= 16.
ShrU32(v, k) ==
  <<v[1] \div Pow2(k), (v[2] \div Pow2(k)) + (v[1] % Pow2(k)) * Pow2(16 - k)>>

\* The generator polynomial 0xEDB88320 of the reflected CRC-32.
CrcPoly == <<60856, 33568>>

RECURSIVE CrcShift(_, _)
\* k rounds of the CRC-32 shift register on c.
CrcShift(c, k) ==
  IF k = 0 THEN c
  ELSE CrcShift(IF c[2] % 2 = 1 THEN XorU32(CrcPoly, ShrU32(c, 1)) ELSE ShrU32(c, 1),
                k - 1)

\* zlib's crc_table[0].
CrcTable == [n \in 0..255 |-> CrcShift(<<0, n>>, 8)]

RECURSIVE CrcUpdate(_, _, _, _)
\* The shift register after the bytes mem[from..to-1]; a byte nothing was
\* stored to makes it indeterminate.
CrcUpdate(c, mem, from, to) ==
  IF from >= to THEN c
  ELSE IF mem[from] = Indeterminate \/ c[1] = Indeterminate
    THEN <<Indeterminate, Indeterminate>>
    ELSE CrcUpdate(XorU32(CrcTable[Xor(c[2] % 256, mem[from])], ShrU32(c, 8)),
                   mem, from + 1, to)

\* crc32(crc32(0, Z_NULL, 0), mem + from, to - from).
crc32(mem, from, to) ==
  LET c == CrcUpdate(<<65535, 65535>>, mem, from, to)
  IN  IF c[1] = Indeterminate THEN c ELSE XorU32(c, <<65535, 65535>>)

\* ----------------------------------------------------------------- state

VARIABLES
  makeSVG,      \* -f svg was given
  size,         \* qrcode.size
  scale,        \* QR_SCALE of the build
  padding,      \* QR_PADDING of the build
  source,       \* what the module source answers: "any", or a row pattern
  modules,      \* the <<x, y>> of the current row for which qrcode_getModule
                \* has answered true
  cap,          \* sizeof(pngbuf)
  pc,           \* the statement main is at
  status,       \* the exit status once pc = "exit"
  pngbuf,       \* pngbuf[0..cap-1], then the 4 bytes of memory that follow it
  pngptr,       \* offset of pngptr in pngbuf
  pngdata,      \* offset of pngdata in pngbuf
  line,         \* the scanline buffer
  lineptr,      \* offset of lineptr in line
  bit,          \* the current bit mask
  x,            \* column loop counter (both paths)
  y,            \* row loop counter (both paths)
  y0,           \* replication loop counter
  xstart,       \* SVG: first column of the current run
  xcount,       \* SVG: length of the current run
  toggled,      \* pixels of the current row whose bit an XOR has changed
  ntoggles,     \* XORs executed on the current row
  zstream,      \* the z_stream fields the program reads back
  zcalls,       \* every call made to the compressor: what it was and its result
  linefeeds,    \* the inputs deflate was given since line was last blanked
  oob,          \* stores made outside the array they address
  out,          \* the bytes handed to stdout by fwrite
  svg,          \* SVG: the elements printed outside the rows
  rowrects      \* SVG: the rectangles printed for the current row

vars == <<makeSVG, size, scale, padding, source, modules, cap, pc, status, pngbuf,
          pngptr, pngdata, line, lineptr, bit, x, y, y0, xstart, xcount, toggled,
          ntoggles, zstream, zcalls, linefeeds, oob, out, svg, rowrects>>

\* What never changes after the command line is parsed and the QR code built.
inputs == <<makeSVG, size, scale, padding, source, cap>>

bufvars == <<pngbuf, pngptr, pngdata>>

rowvars == <<line, lineptr, bit, toggled, ntoggles>>

zvars == <<zstream, zcalls>>

svgvars == <<xstart, xcount, svg, rowrects>>

pngvars == <<bufvars, rowvars, zvars, y0, linefeeds, oob, out>>

\* ------------------------------------------------------------ derived sizes

\* unsigned size = QR_SCALE * (qrcode.size + 2 * QR_PADDING)
ImageSize(n, s, p) == s * (n + 2 * p)

\* linelen = (size + 7) / 8
LineLen(n, s, p) == (ImageSize(n, s, p) + 7) \div 8

\* sizeof(line)
LineBufLen(s, p) == 1 + (s * (255 + 2 * p) + 7) \div 8

\* xoff = (QR_SCALE * QR_PADDING) / 8
XOff(s, p) == (s * p) \div 8

\* A scanline that starts every module area on a byte boundary.
XModAligned(s, p) == 0

\* xmod = (QR_SCALE * QR_PADDING) & 7
XMod(s, p) == (s * p) % 8

\* Offset of the first compressed byte: signature, IHDR chunk, IDAT length and tag.
IdatDataStart == 8 + (4 + 4 + 13 + 4) + 4 + 4

\* Bytes of a whole container that carries z compressed bytes.
ContainerLen(z) == IdatDataStart + z + 4 + (4 + 4 + 4)

\* ------------------------------------------------------- buffer primitives

\* *ptr = b, with no check: a store at or past end lands in the memory after the array.
Poke(mem, ptr, b) == [mem EXCEPT ![ptr] = b]

RECURSIVE PokeSeq(_, _, _)
\* *ptr++ = b for each b of bytes, unchecked.
PokeSeq(mem, ptr, bytes) ==
  IF bytes = <<>> THEN mem
  ELSE PokeSeq(Poke(mem, ptr, Head(bytes)), ptr + 1, Tail(bytes))

\* The four bytes of val, most significant first.
BytesOfU32(val) ==
  IF val[1] = Indeterminate
    THEN <<Indeterminate, Indeterminate, Indeterminate, Indeterminate>>
    ELSE <<val[1] \div 256, val[1] % 256, val[2] \div 256, val[2] % 256>>

RECURSIVE AddBytes(_, _, _, _)
\* if (pngptr < pngend) *pngptr++ = b, for each b of bytes.
AddBytes(bytes, mem, ptr, end) ==
  IF bytes = <<>> THEN [mem |-> mem, ptr |-> ptr]
  ELSE IF ptr < end
    THEN AddBytes(Tail(bytes), Poke(mem, ptr, Head(bytes)), ptr + 1, end)
    ELSE AddBytes(Tail(bytes), mem, ptr, end)

\* png_add_unsigned: the buffer and the advanced pointer.
png_add_unsigned(val, mem, ptr, end) == AddBytes(BytesOfU32(val), mem, ptr, end)

\* png_add_crc: the CRC of mem[data..ptr-1], appended at ptr.
png_add_crc(mem, data, ptr, end) == png_add_unsigned(crc32(mem, data, ptr), mem, ptr, end)

\* Offsets in from..to-1 that lie at or past end.
PastEnd(from, to, end) == {i \in from..(to - 1) : i >= end}

\* ------------------------------------------------------------ module source

\* The row patterns the module source can be fixed to.
Patterns == {"all", "checker", "pairs"}

PatternBit(src, cx, cy) ==
  CASE src = "all" -> TRUE
    [] src = "checker" -> (cx + cy) % 2 = 0
    [] OTHER -> (cx \div 2) % 2 = 1

\* What qrcode_getModule(&qrcode, cx, cy) can answer.
qrcode_getModule(src, cx, cy) ==
  IF src = "any" THEN BOOLEAN ELSE {PatternBit(src, cx, cy)}

\* The record of an answer.
Noted(mods, cx, cy, qrset) == IF qrset THEN mods \cup {<<cx, cy>>} ELSE mods

\* -------------------------------------------------------- scanline synthesis

\* memset(line + 1, 0xff, linelen), after line[0] = 0.
BlankLine(ln, linelen) ==
  [i \in DOMAIN ln |-> IF i = 0 THEN 0 ELSE IF i <= linelen THEN 255 ELSE ln[i]]

\* The pixel a byte offset and a bit mask address (bit 128 is the leftmost).
PixelOf(ptr, mask) == (ptr - 1) * 8 + (CHOOSE k \in 0..7 : Pow2(7 - k) = mask)

\* if (qrset) *lineptr ^= bit;
ToggleBit(st, qrset) ==
  IF ~qrset THEN st
  ELSE IF st.lineptr \notin DOMAIN st.line
    THEN [st EXCEPT !.oob = @ \cup {<<"line", st.lineptr>>}]
    ELSE LET old == st.line[st.lineptr]
             new == IF old = Indeterminate THEN Indeterminate ELSE Xor(old, st.bit)
             px  == PixelOf(st.lineptr, st.bit)
         IN  [st EXCEPT !.line = [@ EXCEPT ![st.lineptr] = new],
                        !.toggled = @ \cup {px},
                        !.ntoggles = @ + 1]

\* A bit mask that wraps without moving to the next byte.
AdvanceBitSameByte(st) ==
  IF st.bit > 1 THEN [st EXCEPT !.bit = st.bit \div 2]
                ELSE [st EXCEPT !.bit = 128]

\* if (bit == 1) { lineptr ++; bit = 128; } else { bit = bit / 2; }
AdvanceBit(st) ==
  IF st.bit = 1 THEN [st EXCEPT !.lineptr = @ + 1, !.bit = 128]
  ELSE [st EXCEPT !.bit = @ \div 2]

RECURSIVE PaintModule(_, _, _)
\* for (x0 = 0; x0 < QR_SCALE; x0 ++) { ... }, with n iterations left.
PaintModule(st, qrset, n) ==
  IF n = 0 THEN st ELSE PaintModule(AdvanceBit(ToggleBit(st, qrset)), qrset, n - 1)

\* The bytes deflate is given: avail_in = linelen + 1 bytes from line.
LineInput(ln, linelen) == [i \in 1..(linelen + 1) |-> ln[i - 1]]

\* ---------------------------------------------------------------- compressor

\* The k-th byte of the compressed stream: the compressor is a function of
\* its input that the program never looks into, so any fixed bytes stand for it.
CompressedByte(k) == (120 + 53 * k) % 256

\* What deflate(&zstream, flush) can do with the output space zs has left:
\* its return value and how many bytes it stores at next_out.  It never stores
\* more than avail_out bytes, produces at most MaxZ bytes for the whole
\* stream, and ends the stream only on Z_FINISH with room for all the rest.
deflate(zs, flush) ==
  IF zs.avail_out = 0 THEN {[ret |-> Z_BUF_ERROR, n |-> 0]}
  ELSE {[ret |-> Z_STREAM_ERROR, n |-> 0]} \cup
    IF flush = "Z_NO_FLUSH"
    THEN {[ret |-> Z_OK, n |-> k] :
            k \in 0..Min(1, Min(zs.avail_out, MaxZ - 1 - zs.total_out))}
    ELSE {IF k <= zs.avail_out THEN [ret |-> Z_STREAM_END, n |-> k]
                               ELSE [ret |-> Z_OK, n |-> zs.avail_out] :
            k \in 1..(MaxZ - zs.total_out)}

\* deflateInit2(...) can succeed or run out of memory.
deflateInit2 == {Z_OK, Z_MEM_ERROR}

\* A call as zcalls records it.
Call(op, flush, len, ret) == [op |-> op, flush |-> flush, avail_in |-> len, ret |-> ret]

\* One call of deflate with the answer r: the stream advances, the bytes land
\* in pngbuf at next_out, and the call is logged.
Deflated(flush, input, r) ==
  /\ zcalls' = Append(zcalls, Call("deflate", flush, Len(input), r.ret))
  /\ zstream' = [zstream EXCEPT !.next_out = @ + r.n,
                                !.avail_out = @ - r.n,
                                !.total_out = @ + r.n]
  /\ pngbuf' = PokeSeq(pngbuf, zstream.next_out,
                       [i \in 1..r.n |-> CompressedByte(zstream.total_out + i - 1)])

\* An error return that is not acted on.
FailIgnored ==
  /\ pc' = pc
  /\ status' = status

\* return (1);
Fail ==
  /\ pc' = "exit"
  /\ status' = 1

\* A feed that forces the compressor to flush after every scanline.
FeedLineFlushing(r) ==
  LET input == LineInput(line, LineLen(size, scale, padding))
  IN  /\ Deflated("Z_SYNC_FLUSH", input, r)
      /\ linefeeds' = Append(linefeeds, input)

\* zstream.next_in = line; zstream.avail_in = linelen + 1;
\* if ((zerr = deflate(&zstream, Z_NO_FLUSH)) < Z_OK) return (1);
FeedLine(r) ==
  LET input == LineInput(line, LineLen(size, scale, padding))
  IN  /\ Deflated("Z_NO_FLUSH", input, r)
      /\ linefeeds' = Append(linefeeds, input)

\* --------------------------------------------------------------------- Init

\* The state once the command line is parsed and qrcode_initText has succeeded.
Start(svgrun, n, s, p, src, c) ==
  /\ makeSVG = svgrun
  /\ size = n
  /\ scale = s
  /\ padding = p
  /\ source = src
  /\ modules = {}
  /\ cap = c
  /\ pc = IF svgrun THEN "svg_header" ELSE "png_header"
  /\ status = 0
  /\ pngbuf = [i \in 0..(c + 3) |-> Indeterminate]
  /\ pngptr = 0
  /\ pngdata = 0
  /\ line = [i \in 0..(LineBufLen(s, p) - 1) |-> Indeterminate]
  /\ lineptr = 0
  /\ bit = 0
  /\ x = 0
  /\ y = 0
  /\ y0 = 0
  /\ xstart = 0
  /\ xcount = 0
  /\ toggled = {}
  /\ ntoggles = 0
  /\ zstream = [next_out |-> 0, avail_out |-> 0, total_out |-> 0]
  /\ zcalls = <<>>
  /\ linefeeds = <<>>
  /\ oob = {}
  /\ out = <<>>
  /\ svg = <<>>
  /\ rowrects = <<>>

\* Every small build, on either output path, over every buffer size that holds
\* the fixed-size head of the container and at most a whole container.
Init ==
  \E svgrun \in BOOLEAN, n \in 1..MaxSize, s \in 1..MaxScale, p \in 0..MaxPadding :
    \E c \in IF svgrun THEN {0} ELSE IdatDataStart..ContainerLen(MaxZ) :
      Start(svgrun, n, s, p, "any", c)

\* ----------------------------------------------------------------- PNG path

Signature == <<137, 80, 78, 71, 13, 10, 26, 10>>

TagIHDR == <<73, 72, 68, 82>>

TagIDAT == <<73, 68, 65, 84>>

TagIEND == <<73, 69, 78, 68>>

\* Lines 200-237 on the buffer mem of end offset end, for an image of side img:
\* the signature, the IHDR chunk, the IDAT length slot and tag.
PngHead(mem, img, end) ==
  LET m0 == PokeSeq(mem, 0, Signature)
      a  == png_add_unsigned(U32(13), m0, 8, end)
      m1 == PokeSeq(a.mem, a.ptr, TagIHDR)
      b  == png_add_unsigned(U32(img), m1, a.ptr + 4, end)
      c  == png_add_unsigned(U32(img), b.mem, b.ptr, end)
      m2 == PokeSeq(c.mem, c.ptr, <<1, 0, 0, 0, 0>>)
      d  == png_add_crc(m2, a.ptr, c.ptr + 5, end)
      m3 == PokeSeq(d.mem, d.ptr + 4, TagIDAT)
  IN  [mem |-> m3, pngdata |-> d.ptr + 4, pngptr |-> d.ptr + 8,
       past |-> PastEnd(0, 8, end) \cup PastEnd(a.ptr, a.ptr + 4, end)
                \cup PastEnd(c.ptr, c.ptr + 5, end)
                \cup PastEnd(d.ptr + 4, d.ptr + 8, end)]

PngHeader ==
  /\ pc = "png_header"
  /\ LET h == PngHead(pngbuf, ImageSize(size, scale, padding), cap)
     IN  /\ pngbuf' = h.mem
         /\ pngdata' = h.pngdata
         /\ pngptr' = h.pngptr
         /\ oob' = oob \cup {<<"pngbuf", i>> : i \in h.past}
  /\ pc' = "deflate_init"
  /\ UNCHANGED <<inputs, modules, status, x, y, y0, rowvars, zvars, linefeeds, out,
                 svgvars>>

\* Lines 239-253: deflateInit2, the output window, the filter byte, the blank line.
DeflateInit ==
  /\ pc = "deflate_init"
  /\ \E zerr \in deflateInit2 :
       /\ zcalls' = Append(zcalls, Call("deflateInit2", "", 0, zerr))
       /\ IF zerr < Z_OK
            THEN Fail /\ UNCHANGED <<zstream, line, y>>
            ELSE /\ zstream' = [next_out |-> pngptr, avail_out |-> cap - pngptr,
                                total_out |-> 0]
                 /\ line' = BlankLine(line, LineLen(size, scale, padding))
                 /\ y' = 0
                 /\ pc' = "pad_top"
                 /\ UNCHANGED status
  /\ UNCHANGED <<inputs, modules, x, y0, bufvars, lineptr, bit, toggled, ntoggles,
                 linefeeds, oob, out, svgvars>>

\* Lines 254-261, one iteration.
PadTopFeed ==
  /\ pc = "pad_top"
  /\ y < scale * padding
  /\ \E r \in deflate(zstream, "Z_NO_FLUSH") :
       /\ FeedLine(r)
       /\ IF r.ret < Z_OK THEN Fail /\ UNCHANGED y
                          ELSE y' = y + 1 /\ UNCHANGED <<pc, status>>
  /\ UNCHANGED <<inputs, modules, x, y0, pngptr, pngdata, rowvars, oob, out, svgvars>>

\* Line 254 false, line 264: y = 0.
PadTopDone ==
  /\ pc = "pad_top"
  /\ ~(y < scale * padding)
  /\ y' = 0
  /\ pc' = "rows"
  /\ UNCHANGED <<inputs, modules, status, x, pngvars, svgvars>>

\* Lines 264-267: the row's blank line, and lineptr and bit at the first module.
RowStart ==
  /\ pc = "rows"
  /\ y < size
  /\ line' = BlankLine(line, LineLen(size, scale, padding))
  /\ x' = 0
  /\ lineptr' = 1 + XOff(scale, padding)
  /\ bit' = 128 \div Pow2(XMod(scale, padding))
  /\ toggled' = {}
  /\ ntoggles' = 0
  /\ modules' = {}
  /\ linefeeds' = <<>>
  /\ pc' = "row_module"
  /\ UNCHANGED <<inputs, status, y, y0, bufvars, zvars, oob, out, svgvars>>

\* Lines 267-282, one module: its QR_SCALE pixels.
RowModule ==
  /\ pc = "row_module"
  /\ x < size
  /\ \E qrset \in qrcode_getModule(source, x, y) :
       LET st == PaintModule([line |-> line, lineptr |-> lineptr, bit |-> bit,
                              toggled |-> toggled, ntoggles |-> ntoggles, oob |-> oob],
                             qrset, scale)
       IN  /\ modules' = Noted(modules, x, y, qrset)
           /\ line' = st.line
           /\ lineptr' = st.lineptr
           /\ bit' = st.bit
           /\ toggled' = st.toggled
           /\ ntoggles' = st.ntoggles
           /\ oob' = st.oob
  /\ x' = x + 1
  /\ UNCHANGED <<inputs, pc, status, y, y0, bufvars, zvars, linefeeds, out, svgvars>>

\* Line 267 false, line 284: y0 = 0.
RowPainted ==
  /\ pc = "row_module"
  /\ ~(x < size)
  /\ y0' = 0
  /\ pc' = "row_feed"
  /\ UNCHANGED <<inputs, modules, status, x, y, bufvars, rowvars, zvars, linefeeds,
                 oob, out, svgvars>>

\* Lines 284-291, one iteration.
RowFeed ==
  /\ pc = "row_feed"
  /\ y0 < scale
  /\ \E r \in deflate(zstream, "Z_NO_FLUSH") :
       /\ FeedLine(r)
       /\ IF r.ret < Z_OK THEN Fail /\ UNCHANGED y0
                          ELSE y0' = y0 + 1 /\ UNCHANGED <<pc, status>>
  /\ UNCHANGED <<inputs, modules, x, y, pngptr, pngdata, rowvars, oob, out, svgvars>>

\* Line 284 false, line 264: y ++.
RowFed ==
  /\ pc = "row_feed"
  /\ ~(y0 < scale)
  /\ y' = y + 1
  /\ pc' = "rows"
  /\ UNCHANGED <<inputs, modules, status, x, pngvars, svgvars>>

\* Line 264 false, lines 295-296: the blank line again, y = 0.
RowsDone ==
  /\ pc = "rows"
  /\ ~(y < size)
  /\ line' = BlankLine(line, LineLen(size, scale, padding))
  /\ modules' = {}
  /\ linefeeds' = <<>>
  /\ y' = 0
  /\ pc' = "pad_bottom"
  /\ UNCHANGED <<inputs, status, x, y0, bufvars, lineptr, bit, toggled, ntoggles,
                 zvars, oob, out, svgvars>>

\* Lines 296-303, one iteration.
PadBottomFeed ==
  /\ pc = "pad_bottom"
  /\ y < scale * padding
  /\ \E r \in deflate(zstream, "Z_NO_FLUSH") :
       /\ FeedLine(r)
       /\ IF r.ret < Z_OK THEN Fail /\ UNCHANGED y
                          ELSE y' = y + 1 /\ UNCHANGED <<pc, status>>
  /\ UNCHANGED <<inputs, modules, x, y0, pngptr, pngdata, rowvars, oob, out, svgvars>>

\* Line 296 false.
PadBottomDone ==
  /\ pc = "pad_bottom"
  /\ ~(y < scale * padding)
  /\ pc' = "finish"
  /\ UNCHANGED <<inputs, modules, status, x, y, pngvars, svgvars>>

\* Lines 305-311: deflate(Z_FINISH) with no input.
Finish ==
  /\ pc = "finish"
  /\ \E r \in deflate(zstream, "Z_FINISH") :
       /\ Deflated("Z_FINISH", <<>>, r)
       /\ IF r.ret # Z_STREAM_END THEN Fail
                                  ELSE pc' = "idat_close" /\ UNCHANGED status
  /\ UNCHANGED <<inputs, modules, x, y, y0, pngptr, pngdata, rowvars, linefeeds, oob,
                 out, svgvars>>

\* Lines 313-316: the IDAT length, backfilled, and the IDAT CRC.
CloseIdat ==
  /\ pc = "idat_close"
  /\ LET ptr == zstream.next_out
         a   == png_add_unsigned(U32(ptr - pngdata - 4), pngbuf, pngdata - 4, cap)
         b   == png_add_crc(a.mem, pngdata, ptr, cap)
     IN  /\ pngbuf' = b.mem
         /\ pngptr' = b.ptr
  /\ pc' = "iend"
  /\ UNCHANGED <<inputs, modules, status, x, y, y0, pngdata, rowvars, zvars, linefeeds,
                 oob, out, svgvars>>

\* Lines 318-327: the IEND chunk.  Its tag is stored with no check: when fewer
\* than 4 bytes are left the stores land after pngbuf, which the build may
\* survive (the bytes are there to be read back) or not.
AddIend ==
  /\ pc = "iend"
  /\ LET a    == png_add_unsigned(U32(0), pngbuf, pngptr, cap)
         m1   == PokeSeq(a.mem, a.ptr, TagIEND)
         b    == png_add_crc(m1, a.ptr, a.ptr + 4, cap)
         past == PastEnd(a.ptr, a.ptr + 4, cap)
     IN  /\ oob' = oob \cup {<<"pngbuf", i>> : i \in past}
         /\ \E survives \in IF past = {} THEN {TRUE} ELSE BOOLEAN :
              IF survives
                THEN /\ pngbuf' = b.mem
                     /\ pngdata' = a.ptr
                     /\ pngptr' = b.ptr
                     /\ pc' = "write"
                ELSE /\ pc' = "crashed"
                     /\ UNCHANGED bufvars
  /\ UNCHANGED <<inputs, modules, status, x, y, y0, rowvars, zvars, linefeeds, out,
                 svgvars>>

\* Lines 329-334: fwrite(pngbuf, pngptr - pngbuf, 1, stdout); return (0);
WritePng ==
  /\ pc = "write"
  /\ out' = [i \in 1..pngptr |-> pngbuf[i - 1]]
  /\ pc' = "exit"
  /\ status' = 0
  /\ UNCHANGED <<inputs, modules, x, y, y0, bufvars, rowvars, zvars, linefeeds, oob,
                 svgvars>>

\* ----------------------------------------------------------------- SVG path

Rect(rx, ry, w, h, fill) ==
  [el |-> "rect", x |-> rx, y |-> ry, width |-> w, height |-> h, fill |-> fill]

\* The black rectangle of the run xstart, xcount in row y (lines 166 and 172).
RunRect ==
  Rect((xstart + padding) * scale, (y + padding) * scale, xcount * scale, scale, "black")

\* Lines 155-158: the svg element and the white background; y = 0.
SvgHeader ==
  /\ pc = "svg_header"
  /\ LET side == (size + 2 * padding) * scale
     IN  svg' = <<[el |-> "svg", x |-> 0, y |-> 0, width |-> side, height |-> side,
                   fill |-> ""],
                  Rect(0, 0, side, side, "white")>>
  /\ y' = 0
  /\ pc' = "svg_rows"
  /\ UNCHANGED <<inputs, modules, status, x, xstart, xcount, rowrects, pngvars>>

\* Lines 158-161: a new row.
SvgRowStart ==
  /\ pc = "svg_rows"
  /\ y < size
  /\ xstart' = 0
  /\ xcount' = 0
  /\ x' = 0
  /\ modules' = {}
  /\ rowrects' = <<>>
  /\ pc' = "svg_module"
  /\ UNCHANGED <<inputs, status, y, svg, pngvars>>

\* Lines 161-169, one module (x, xstart and xcount are uint8_t).
SvgModule ==
  /\ pc = "svg_module"
  /\ x < size
  /\ \E qrset \in qrcode_getModule(source, x, y) :
       /\ modules' = Noted(modules, x, y, qrset)
       /\ IF qrset
            THEN /\ xstart' = IF xcount = 0 THEN x ELSE xstart
                 /\ xcount' = (xcount + 1) % 256
                 /\ UNCHANGED rowrects
            ELSE IF xcount > 0
              THEN /\ rowrects' = Append(rowrects, RunRect)
                   /\ xcount' = 0
                   /\ UNCHANGED xstart
              ELSE UNCHANGED <<rowrects, xstart, xcount>>
  /\ x' = (x + 1) % 256
  /\ UNCHANGED <<inputs, pc, status, y, svg, pngvars>>

\* A row end that forgets the run still open at the last column.
SvgRowEndNoFlush ==
  /\ pc = "svg_module"
  /\ ~(x < size)
  /\ rowrects' = rowrects
  /\ y' = (y + 1) % 256
  /\ pc' = "svg_rows"
  /\ UNCHANGED <<inputs, modules, status, x, xstart, xcount, svg, pngvars>>

\* Line 161 false, lines 171-174: the run that reaches the last column; y++.
SvgRowEnd ==
  /\ pc = "svg_module"
  /\ ~(x < size)
  /\ rowrects' = IF xcount > 0 THEN Append(rowrects, RunRect) ELSE rowrects
  /\ y' = (y + 1) % 256
  /\ pc' = "svg_rows"
  /\ UNCHANGED <<inputs, modules, status, x, xstart, xcount, svg, pngvars>>

\* Line 158 false, lines 176 and 334.
SvgEnd ==
  /\ pc = "svg_rows"
  /\ ~(y < size)
  /\ svg' = Append(svg, [el |-> "/svg", x |-> 0, y |-> 0, width |-> 0, height |-> 0,
                         fill |-> ""])
  /\ pc' = "exit"
  /\ status' = 0
  /\ UNCHANGED <<inputs, modules, x, y, xstart, xcount, rowrects, pngvars>>

\* ------------------------------------------------------------ specifications

Next ==
  \/ PngHeader
  \/ DeflateInit
  \/ PadTopFeed
  \/ PadTopDone
  \/ RowStart
  \/ RowModule
  \/ RowPainted
  \/ RowFeed
  \/ RowFed
  \/ RowsDone
  \/ PadBottomFeed
  \/ PadBottomDone
  \/ Finish
  \/ CloseIdat
  \/ AddIend
  \/ WritePng
  \/ SvgHeader
  \/ SvgRowStart
  \/ SvgModule
  \/ SvgRowEnd
  \/ SvgEnd

\* main, for every small build.
Spec == Init /\ [][Next]_vars

\* The shipped build (QR_SCALE, QR_PADDING) at the head of the row loop, for
\* every size a QR code can have and a module source fixed to a pattern: the
\* state main reaches when deflateInit2 and the top padding feeds succeed
\* without the compressor producing output.
InitRow ==
  \E n \in MinQRSize..MaxQRSize, src \in Patterns :
    LET c     == ContainerLen(MaxZ)
        h     == PngHead([i \in 0..(c + 3) |-> Indeterminate],
                         ImageSize(n, QR_SCALE, QR_PADDING), c)
        len   == LineLen(n, QR_SCALE, QR_PADDING)
        blank == BlankLine([i \in 0..(LineBufLen(QR_SCALE, QR_PADDING) - 1) |->
                              Indeterminate], len)
        ntop  == QR_SCALE * QR_PADDING
    IN  /\ makeSVG = FALSE
        /\ size = n
        /\ scale = QR_SCALE
        /\ padding = QR_PADDING
        /\ source = src
        /\ modules = {}
        /\ cap = c
        /\ pc = "rows"
        /\ status = 0
        /\ pngbuf = h.mem
        /\ pngptr = h.pngptr
        /\ pngdata = h.pngdata
        /\ line = blank
        /\ lineptr = 0
        /\ bit = 0
        /\ x = 0
        /\ y = 0
        /\ y0 = 0
        /\ xstart = 0
        /\ xcount = 0
        /\ toggled = {}
        /\ ntoggles = 0
        /\ zstream = [next_out |-> h.pngptr, avail_out |-> c - h.pngptr, total_out |-> 0]
        /\ zcalls = <<Call("deflateInit2", "", 0, Z_OK)>> \o
                    [i \in 1..ntop |-> Call("deflate", "Z_NO_FLUSH", len + 1, Z_OK)]
        /\ linefeeds = [i \in 1..ntop |-> LineInput(blank, len)]
        /\ oob = {}
        /\ out = <<>>
        /\ svg = <<>>
        /\ rowrects = <<>>

NextRow ==
  \/ RowStart
  \/ RowModule
  \/ RowPainted

\* The synthesis of one row (lines 264-282) in the shipped build.
SpecRow == InitRow /\ [][NextRow]_vars

\* ------------------------------------------------------------------- claims

\* The image side of the run.
Img == ImageSize(size, scale, padding)

\* The calls that fed a scanline, by their place in zcalls.
FeedCalls == {i \in 1..Len(zcalls) : zcalls[i].op = "deflate" /\ zcalls[i].flush = "Z_NO_FLUSH"}

\* Scanlines fed so far.
NFeeds == Cardinality(FeedCalls)

\* The image row (0-based) that the j-th entry of linefeeds is.
RowOfFeed(j) == NFeeds - Len(linefeeds) + j - 1

\* Pixel px of a fed scanline, MSB first after the filter byte: 1 is background.
PixelBit(input, px) == (input[2 + px \div 8] \div Pow2(7 - (px % 8))) % 2

\* Whether image pixel (px, py) lies on a set module of the current row.
OnSetModule(px, py) ==
  LET cx == (px \div scale) - padding
      cy == (py \div scale) - padding
  IN  /\ cx \in 0..(size - 1)
      /\ cy \in 0..(size - 1)
      /\ <<cx, cy>> \in modules

\* C1: every scanline handed to the compressor is the image row of its place
\* in the feed order - Img pixels, foreground (0) exactly on the pixels of set
\* modules and background (1) everywhere else, quiet zone included - and a
\* successful encode has handed over exactly Img of them.
C1_ScanlinesAreTheImage ==
  ~makeSVG =>
    /\ \A j \in 1..Len(linefeeds) :
         /\ RowOfFeed(j) \in 0..(Img - 1)
         /\ Len(linefeeds[j]) = 1 + (Img + 7) \div 8
         /\ \A px \in 0..(Img - 1) :
              PixelBit(linefeeds[j], px) = 0 <=> OnSetModule(px, RowOfFeed(j))
    /\ (pc = "exit" /\ status = 0) => NFeeds = Img

\* A successful encode of a 3x3 matrix at scale 2 with a one-module quiet zone
\* whose last row has both set and unset modules.
C1_Witness ==
  /\ ~makeSVG /\ pc = "exit" /\ status = 0
  /\ size = 3 /\ scale = 2 /\ padding = 1
  /\ toggled # {} /\ Cardinality(toggled) < scale * size
  /\ NFeeds = 10

\* What the claims count as a failure reported by the compressor.
Failed(c) ==
  \/ c.op = "deflateInit2" /\ c.ret < Z_OK
  \/ c.op = "deflate" /\ c.flush = "Z_NO_FLUSH" /\ c.ret < Z_OK
  \/ c.op = "deflate" /\ c.flush = "Z_FINISH" /\ c.ret # Z_STREAM_END

\* C6: a failure reported by deflateInit2, by a feed or by the finish is the
\* last call ever made to the compressor, the run has ended with status 1,
\* and nothing was written to stdout.
C6_CompressorFailureAborts ==
  \A i \in 1..Len(zcalls) :
    Failed(zcalls[i]) =>
      /\ i = Len(zcalls)
      /\ pc = "exit"
      /\ status = 1
      /\ out = <<>>

\* A feed that failed after earlier feeds had succeeded.
C6_Witness ==
  /\ Len(zcalls) > 3
  /\ zcalls[Len(zcalls)].flush = "Z_NO_FLUSH"
  /\ zcalls[Len(zcalls)].ret = Z_BUF_ERROR
  /\ pc = "exit"

\* The all-background scanline as deflate is given it.
BlankInput == [i \in 1..(1 + (Img + 7) \div 8) |-> IF i = 1 THEN 0 ELSE 255]

\* C8: the compressor sees one successful deflateInit2, then only deflate
\* calls: feed number k (1..Img), made with Z_NO_FLUSH and one whole scanline,
\* is the blank line for the first scale*padding, then row (k-1-scale*padding)
\* div scale's line, scale times each in increasing row order, then the blank
\* line again; Z_FINISH comes once, after exactly Img feeds, and is the last call.
C8_FeedProtocol ==
  LET top  == scale * padding
      last == Len(zcalls)
  IN  /\ last <= Img + 2
      /\ \A i \in 1..last :
           /\ (i = 1) <=> (zcalls[i].op = "deflateInit2")
           /\ (i > 1) => zcalls[1].ret = Z_OK
           /\ (i > 1 /\ i <= Img + 1) =>
                /\ zcalls[i].flush = "Z_NO_FLUSH"
                /\ zcalls[i].avail_in = 1 + (Img + 7) \div 8
                /\ (i < last) => zcalls[i].ret >= Z_OK
           /\ (i = Img + 2) => zcalls[i].flush = "Z_FINISH" /\ zcalls[i].avail_in = 0
      /\ \A j \in 1..Len(linefeeds) :
           LET k == RowOfFeed(j)
           IN  IF k < top \/ k >= top + scale * size
                 THEN linefeeds[j] = BlankInput
                 ELSE /\ pc \in {"row_feed", "rows", "exit"}
                      /\ (IF pc = "rows" THEN y - 1 ELSE y) = (k - top) \div scale
                      /\ j = ((k - top) % scale) + 1
                      /\ linefeeds[j] = LineInput(line, (Img + 7) \div 8)
      /\ (pc = "rows" /\ y > 0) => Len(linefeeds) = scale

\* A finished stream for a 3x3 matrix at scale 2 with a one-module quiet zone.
C8_Witness ==
  /\ pc = "idat_close"
  /\ size = 3 /\ scale = 2 /\ padding = 1
  /\ Len(zcalls) = Img + 2
  /\ zcalls[Len(zcalls)].ret = Z_STREAM_END

\* The columns of the current row whose module is set.
SetColumns == {cx \in 0..(size - 1) : \E cy \in 0..(size - 1) : <<cx, cy>> \in modules}

\* The columns at which a maximal run of set modules starts.
RunStarts == {a \in SetColumns : (a - 1) \notin SetColumns}

\* The length of the maximal run that starts at column a.
RunLength(a) == CHOOSE len \in 1..size :
                  /\ \A k \in 0..(len - 1) : (a + k) \in SetColumns
                  /\ (a + len) \notin SetColumns

\* The k-th run start from the left.
NthRunStart(k) == CHOOSE a \in RunStarts : Cardinality({b \in RunStarts : b < a}) = k - 1

\* The rectangles the maximal runs of row cy stand for, left to right.
RunRectangles(cy) ==
  [k \in 1..Cardinality(RunStarts) |->
     Rect((NthRunStart(k) + padding) * scale, (cy + padding) * scale,
          RunLength(NthRunStart(k)) * scale, scale, "black")]

\* C7: once a row of the SVG path is done, the black rectangles printed for
\* it are, in order, exactly those of its maximal runs of set modules, with
\* x = (runStart+padding)*scale, y = (row+padding)*scale, width =
\* runLength*scale and height = scale; and no rectangle of a row is printed
\* before the full-canvas white rectangle.
C7_SvgRunsAreRectangles ==
  makeSVG =>
    /\ (pc = "svg_rows" /\ y > 0) => rowrects = RunRectangles(y - 1)
    /\ rowrects # <<>> =>
         /\ Len(svg) >= 2
         /\ svg[2] = Rect(0, 0, (size + 2 * padding) * scale,
                          (size + 2 * padding) * scale, "white")

\* A finished row 1.1 (two runs, the second reaching the last column),
\* printed with a quiet zone and a scale above 1.
C7_Witness ==
  /\ makeSVG /\ pc = "svg_rows" /\ y = 2
  /\ size = 3 /\ scale = 2 /\ padding = 1
  /\ modules = {<<0, 1>>, <<2, 1>>}
  /\ Len(rowrects) = 2

\* C10: in the shipped build, while a row is synthesized, every XOR changes a
\* bit of line[1..ceil(Img/8)] that is a pixel of the module area
\* [scale*padding, scale*(padding+size)); the scanline fits the declared
\* buffer; no pixel is changed twice; and so a pixel is foreground exactly
\* when it was toggled.
C10_TogglesStayInTheModuleArea ==
  (scale = QR_SCALE /\ padding = QR_PADDING /\ pc \in {"row_module", "row_feed"}) =>
    /\ 1 + (Img + 7) \div 8 <= LineBufLen(QR_SCALE, QR_PADDING)
    /\ oob = {}
    /\ \A px \in toggled :
         /\ px >= scale * padding
         /\ px < scale * (padding + size)
         /\ (1 + px \div 8) \in 1..((Img + 7) \div 8)
    /\ ntoggles = Cardinality(toggled)
    /\ pc = "row_feed" =>
         \A px \in 0..(Img - 1) :
           PixelBit(LineInput(line, (Img + 7) \div 8), px) = 0 <=> px \in toggled

\* The largest QR code (177 modules) with every module of the row set.
C10_Witness ==
  /\ pc = "row_feed"
  /\ size = MaxQRSize /\ scale = QR_SCALE /\ padding = QR_PADDING
  /\ ntoggles = QR_SCALE * MaxQRSize

\* A PNG run that ended with exit status 0, its bytes handed to stdout.
PngSucceeded == ~makeSVG /\ pc = "exit" /\ status = 0

\* The number of bytes the compressor produced.
Compressed == zstream.total_out

\* The len bytes of the output that start at the 0-based offset off, or the
\* empty sequence when the output ends before them.
OutBytes(off, len) ==
  IF off + len <= Len(out) THEN SubSeq(out, off + 1, off + len) ELSE <<>>

\* The output as memory, for the CRC of a byte range of it.
OutMem == [i \in 0..(Len(out) - 1) |-> out[i + 1]]

\* The CRC32 of the bytes [from, to) of the output, as 4 bytes.
OutCrc(from, to) ==
  IF to <= Len(out) THEN BytesOfU32(crc32(OutMem, from, to)) ELSE <<>>

\* C2: a successful PNG run emits the signature, one IHDR chunk with the
\* 13-byte payload width = height = Img (big-endian), 1, 0, 0, 0, 0, one IDAT
\* chunk and one IEND chunk with no payload: three chunks and nothing else.
C2_ThreeChunksAndNothingElse ==
  PngSucceeded =>
    /\ Len(out) = ContainerLen(Compressed)
    /\ OutBytes(0, 8) = Signature
    /\ OutBytes(12, 4) = TagIHDR
    /\ OutBytes(16, 13) = BytesOfU32(U32(Img)) \o BytesOfU32(U32(Img)) \o <<1, 0, 0, 0, 0>>
    /\ OutBytes(37, 4) = TagIDAT
    /\ OutBytes(IdatDataStart + Compressed + 4, 8) = <<0, 0, 0, 0>> \o TagIEND

\* C3: in the emitted container every chunk's length field is the number of
\* payload bytes between its tag and its CRC: 13 for IHDR, the number of
\* compressed bytes for IDAT, 0 for IEND.
C3_LengthFieldsMatchPayloads ==
  PngSucceeded =>
    /\ OutBytes(8, 8) = BytesOfU32(U32(13)) \o TagIHDR
    /\ OutBytes(33, 8) = BytesOfU32(U32(Compressed)) \o TagIDAT
    /\ OutBytes(IdatDataStart + Compressed + 4, 8) = BytesOfU32(U32(0)) \o TagIEND

\* C4: in the emitted container every chunk's CRC field, stored right after
\* the payload, is the CRC32 of the bytes from the first byte of the tag to
\* the last byte of the payload.
C4_CrcCoversTagAndPayload ==
  PngSucceeded =>
    /\ OutBytes(29, 4) # <<>>
    /\ OutBytes(29, 4) = OutCrc(12, 29)
    /\ OutBytes(IdatDataStart + Compressed, 4) # <<>>
    /\ OutBytes(IdatDataStart + Compressed, 4) = OutCrc(37, IdatDataStart + Compressed)
    /\ OutBytes(IdatDataStart + Compressed + 12, 4) # <<>>
    /\ OutBytes(IdatDataStart + Compressed + 12, 4) =
         OutCrc(IdatDataStart + Compressed + 8, IdatDataStart + Compressed + 12)

\* C5: a PNG run whose buffer is smaller than the complete container needs
\* never ends with success, its truncated bytes handed to stdout.
C5_NoSuccessOnOverflow ==
  PngSucceeded => cap >= ContainerLen(Compressed)

\* C9: no byte is stored at or after the end of the output buffer, and the
\* output pointer never passes it.
C9_NoStoreAtOrPastTheEnd ==
  ~makeSVG =>
    /\ \A e \in oob : e[1] # "pngbuf"
    /\ pngptr <= cap
    /\ zstream.next_out <= cap

====
